---- MODULE Spec2Model ----
(***************************************************************************)
(* Model of deploy_app.py: the command-line entry point, editor discovery  *)
(* (find_editor_id) and the Deploy operation (deploy_app).                 *)
(*                                                                         *)
(* Strings are sequences of tokens.  A token is a whole word or one        *)
(* whitespace character ("sp" is a space, "nl" a newline); substring tests *)
(* of the program are tests for a contiguous run of tokens.                *)
(***************************************************************************)
EXTENDS Integers, Sequences, FiniteSets, TLC

VARIABLES
    argv,           \* sys.argv[1:], dropped once parsed
    pc,             \* position of the single thread of control
    main,           \* locals of __main__
    fe,             \* locals of find_editor_id
    dep,            \* locals of deploy_app
    page,           \* the post-save page read by the scrape
    live,           \* browser sessions launched and not yet ended
    launched,       \* browser sessions ever launched
    opened,         \* sessions whose context and page were opened
    closeCalls,     \* sessions on which browser.close() was called
    steps,          \* Deploy steps performed so far, in order
    editor,         \* content of the editor on the hub page
    exit_code       \* process exit status, None while running

vars == <<argv, pc, main, fe, dep, page, live, launched, opened, closeCalls,
          steps, editor, exit_code>>

None == "None"

(***************************************************************************)
(* Bounds of the model.                                                    *)
(***************************************************************************)
MaxArgs == 3
MaxSegs == 4
MaxListElems == 2
MaxErrElems == 1
MaxQueryFaults == 1

(***************************************************************************)
(* Text helpers (Python str methods on token sequences).                   *)
(***************************************************************************)
IsWs(c) == c \in {"sp", "nl"}

LowerTok(c) ==
    CASE c = "Error" -> "error"
      [] c = "SHADE" -> "shade"
      [] c = "Shade" -> "shade"
      [] c = "Save"  -> "save"
      [] OTHER       -> c

Lower(t) == [i \in DOMAIN t |-> LowerTok(t[i])]

RECURSIVE LStrip(_)
LStrip(t) == IF t # <<>> /\ IsWs(Head(t)) THEN LStrip(Tail(t)) ELSE t

RECURSIVE RStrip(_)
RStrip(t) ==
    IF t # <<>> /\ IsWs(t[Len(t)]) THEN RStrip(SubSeq(t, 1, Len(t) - 1)) ELSE t

Strip(t) == RStrip(LStrip(t))

\* s.split(): the maximal runs of non-whitespace tokens
RECURSIVE SplitWsFrom(_, _, _)
SplitWsFrom(t, cur, acc) ==
    IF t = <<>> THEN (IF cur = <<>> THEN acc ELSE Append(acc, cur))
    ELSE IF IsWs(Head(t))
         THEN SplitWsFrom(Tail(t), <<>>, IF cur = <<>> THEN acc ELSE Append(acc, cur))
         ELSE SplitWsFrom(Tail(t), Append(cur, Head(t)), acc)

SplitWs(t) == SplitWsFrom(t, <<>>, <<>>)

\* ' '.join(words)
RECURSIVE JoinSp(_)
JoinSp(ws) ==
    IF ws = <<>> THEN <<>>
    ELSE IF Len(ws) = 1 THEN ws[1]
    ELSE ws[1] \o <<"sp">> \o JoinSp(Tail(ws))

\* s.split('\n')
RECURSIVE SplitLinesFrom(_, _, _)
SplitLinesFrom(t, cur, acc) ==
    IF t = <<>> THEN Append(acc, cur)
    ELSE IF Head(t) = "nl"
         THEN SplitLinesFrom(Tail(t), <<>>, Append(acc, cur))
         ELSE SplitLinesFrom(Tail(t), Append(cur, Head(t)), acc)

SplitLines(t) == SplitLinesFrom(t, <<>>, <<>>)

\* pat in t
Contains(t, pat) ==
    \E i \in 0..(Len(t) - Len(pat)) : SubSeq(t, i + 1, i + Len(pat)) = pat

InList(x, s) == \E i \in DOMAIN s : s[i] = x

(***************************************************************************)
(* The file system seen by the program.                                    *)
(***************************************************************************)
Paths == {"app.groovy", "drv.groovy", "missing.groovy"}

FileExistsAlways(p) == TRUE

\* Path.exists()
FileExists(p) == p \in {"app.groovy", "drv.groovy"}

\* drv.groovy carries a comment line reading "error line x"
FileText(p) ==
    CASE p = "app.groovy" -> <<"definition(", "name: \"Shade\"">>
      [] p = "drv.groovy" -> <<"name = 'shade'", "nl", "error", "sp", "line", "sp", "x">>
      [] OTHER            -> <<>>

\* Path(p).stem with "-" and "_" replaced by spaces
PathStem(p) ==
    CASE p = "app.groovy" -> "app"
      [] p = "drv.groovy" -> "drv"
      [] OTHER            -> p

(***************************************************************************)
(* __main__: argument parsing.                                             *)
(***************************************************************************)
DEFAULT_HUB_IP == "192.168.2.108"

EditorUrl == "http://hub/app/editor/7"

ArgTokens == {"--headless", "--auto", "--hub-ip", EditorUrl} \cup Paths

IsUrl(arg) == arg = EditorUrl

NoUrl == <<>>

MainInit ==
    [app_code_path |-> None, app_url |-> NoUrl, headless |-> FALSE,
     auto_discover |-> FALSE, hub_ip |-> DEFAULT_HUB_IP,
     component_type |-> None, component_name |-> None, success |-> None]

RECURSIVE ParseArgs(_, _, _)
ParseArgs(args, i, m) ==
    IF i > Len(args) THEN m
    ELSE LET arg == args[i] IN
         IF arg = "--headless" THEN ParseArgs(args, i + 1, [m EXCEPT !.headless = TRUE])
         ELSE IF arg = "--auto" THEN ParseArgs(args, i + 1, [m EXCEPT !.auto_discover = TRUE])
         ELSE IF arg = "--hub-ip" /\ i + 1 <= Len(args)
              THEN ParseArgs(args, i + 2, [m EXCEPT !.hub_ip = args[i + 1]])
         ELSE IF IsUrl(arg) THEN ParseArgs(args, i + 1, [m EXCEPT !.app_url = <<arg>>])
         ELSE IF m.app_code_path = None
              THEN ParseArgs(args, i + 1, [m EXCEPT !.app_code_path = arg])
         ELSE ParseArgs(args, i + 1, m)

\* lines 426-440: component kind and name taken from the code text
IsApp(code) == InList("definition(", code) \/ InList("name: \"Shade\"", code)

NameMatch(code, is_app) ==
    IF is_app
    THEN (IF InList("name: \"Shade\"", code) THEN "Shade" ELSE None)
    ELSE (IF InList("name = 'shade'", code) THEN "shade" ELSE None)

ComponentType(code) == IF IsApp(code) THEN "app" ELSE "driver"

ComponentName(code, p) ==
    IF NameMatch(code, IsApp(code)) # None THEN NameMatch(code, IsApp(code))
    ELSE PathStem(p)

(***************************************************************************)
(* The browser session.                                                    *)
(***************************************************************************)
\* browser.close(): ends the session unless the call itself raises
BrowserClose(lv, s, ok) == IF ok THEN lv \ {s} ELSE lv

ScopeExitLeaks(lv) == lv

\* leaving `with sync_playwright()`: the driver stops and takes every
\* browser it launched with it
ScopeExit(lv) == {}

(***************************************************************************)
(* find_editor_id: the listing page is a sequence of segments, each an     *)
(* editor link, a word of text or a run of unrelated markup.               *)
(***************************************************************************)
Window == 200

Links == {[k |-> "link", ct |-> "app", v |-> "1"],
          [k |-> "link", ct |-> "app", v |-> "2"],
          [k |-> "link", ct |-> "driver", v |-> "3"]}

Segments == Links \cup {[k |-> "word", ct |-> None, v |-> "SHADE"],
                        [k |-> "fill", ct |-> None, v |-> None]}

\* characters of a segment: "/app/editor/1", "/driver/editor/3", "SHADE",
\* and 198 characters of other markup
SegLen(sg) ==
    CASE sg.k = "link" -> (IF sg.ct = "app" THEN 13 ELSE 16)
      [] sg.k = "word" -> 5
      [] OTHER         -> 198

RECURSIVE TotalLen(_)
TotalLen(c) == IF c = <<>> THEN 0 ELSE SegLen(Head(c)) + TotalLen(Tail(c))

Offset(c, i) == TotalLen(SubSeq(c, 1, i - 1))

Max(a, b) == IF a >= b THEN a ELSE b
Min(a, b) == IF a <= b THEN a ELSE b

\* re.finditer(pattern, content): the links of the component kind, in order
IsMatch(c, i, ct) == c[i].k = "link" /\ c[i].ct = ct

NameAnywhere(c, i, name) ==
    \E j \in DOMAIN c : c[j].k = "word" /\ LowerTok(c[j].v) = LowerTok(name)

\* name.lower() in content[start_pos:end_pos].lower()
NameInContext(c, i, name) ==
    LET start_pos == Max(0, Offset(c, i) - Window)
        end_pos   == Min(TotalLen(c), Offset(c, i) + SegLen(c[i]) + Window)
    IN \E j \in DOMAIN c :
          /\ c[j].k = "word"
          /\ LowerTok(c[j].v) = LowerTok(name)
          /\ Offset(c, j) >= start_pos
          /\ Offset(c, j) + SegLen(c[j]) <= end_pos

RECURSIVE StrategyAFrom(_, _, _, _)
StrategyAFrom(c, i, name, ct) ==
    IF i > Len(c) THEN None
    ELSE IF IsMatch(c, i, ct) /\ NameInContext(c, i, name) THEN c[i].v
    ELSE StrategyAFrom(c, i + 1, name, ct)

StrategyA(c, name, ct) == StrategyAFrom(c, 1, name, ct)

\* elements of query_selector_all("a, tr, td"): visible text and href
ListTexts == {<<"SHADE", "sp", "x">>, <<"x">>}

NoHref == [ct |-> None, id |-> None]

Hrefs == {NoHref,
          [ct |-> "app", id |-> "1"],
          [ct |-> "driver", id |-> "3"],
          [ct |-> "app", id |-> None]}

ListElems == [text : ListTexts, href : Hrefs]

ElemMatches(e, name, ct) ==
    /\ Contains(Lower(e.text), <<LowerTok(name)>>)
    /\ e.href.ct = ct
    /\ e.href.id # None

\* the loop of lines 70-79; reading element number `fault` raises
RECURSIVE StrategyBFrom(_, _, _, _, _)
StrategyBFrom(es, i, name, ct, fault) ==
    IF i > Len(es) THEN None
    ELSE IF i = fault THEN None
    ELSE IF ElemMatches(es[i], name, ct) THEN es[i].href.id
    ELSE StrategyBFrom(es, i + 1, name, ct, fault)

StrategyB(es, name, ct, fault) == StrategyBFrom(es, 1, name, ct, fault)

SeqsUpTo(S, n) == UNION {[1..k -> S] : k \in 0..n}

FeInit == [content |-> <<>>, elements |-> <<>>, editor_id |-> None, via |-> None]

DepInit ==
    [app_url |-> NoUrl, app_code_path |-> None, headless |-> FALSE,
     app_code |-> <<>>, ret |-> None, result |-> None, writes |-> <<>>,
     evaluated |-> FALSE,
     observed |-> [cmElement |-> FALSE, instance |-> None, textarea |-> FALSE],
     raw_input |-> None,
     enabled |-> None, clicks |-> <<>>, clicked |-> FALSE, scraped |-> FALSE, save_button |-> None, errors_found |-> <<>>,
     unique_errors |-> <<>>, navs |-> 0, fills |-> 0]

PageInit == [elems |-> <<>>, text |-> <<>>]

(***************************************************************************)
(* Initial state and process exit.                                         *)
(***************************************************************************)
Init ==
    /\ argv \in SeqsUpTo(ArgTokens, MaxArgs)
    /\ pc = "start"
    /\ main = MainInit
    /\ fe = FeInit
    /\ dep = DepInit
    /\ page = PageInit
    /\ live = {}
    /\ launched = {}
    /\ opened = {}
    /\ closeCalls = {}
    /\ steps = <<>>
    /\ editor = "old"
    /\ exit_code = None

\* sys.exit(code), or an uncaught exception (status 1): every enclosing
\* `with` block is left on the way out
Exit(code, lv) ==
    /\ pc' = "exited"
    /\ exit_code' = code
    /\ live' = ScopeExit(lv)

\* lines 375-386
MainUsage ==
    /\ pc = "start"
    /\ Len(argv) < 1
    /\ Exit(1, live)
    /\ UNCHANGED <<argv, main, fe, dep, page, launched, opened, closeCalls, steps, editor>>

\* lines 388-413, no code path among the arguments
MainNoPath ==
    /\ pc = "start"
    /\ Len(argv) >= 1
    /\ ParseArgs(argv, 1, MainInit).app_code_path = None
    /\ main' = ParseArgs(argv, 1, MainInit)
    /\ argv' = <<>>
    /\ Exit(1, live)
    /\ UNCHANGED <<fe, dep, page, launched, opened, closeCalls, steps, editor>>

\* lines 388-413
MainParse ==
    /\ pc = "start"
    /\ Len(argv) >= 1
    /\ ParseArgs(argv, 1, MainInit).app_code_path # None
    /\ main' = ParseArgs(argv, 1, MainInit)
    /\ argv' = <<>>
    /\ pc' = "main_auto"
    /\ UNCHANGED <<fe, dep, page, live, launched, opened, closeCalls, steps, editor, exit_code>>

WantsDiscovery == main.auto_discover /\ main.app_url = NoUrl

\* lines 416-420
MainAutoMissing ==
    /\ pc = "main_auto"
    /\ WantsDiscovery
    /\ ~FileExists(main.app_code_path)
    /\ Exit(1, live)
    /\ UNCHANGED <<argv, main, fe, dep, page, launched, opened, closeCalls, steps, editor>>

\* lines 422-443; open/read may raise, which nothing catches
MainAutoRead ==
    /\ pc = "main_auto"
    /\ WantsDiscovery
    /\ FileExists(main.app_code_path)
    /\ \E read_ok \in BOOLEAN :
          IF read_ok
          THEN /\ main' = [main EXCEPT
                     !.component_type = ComponentType(FileText(main.app_code_path)),
                     !.component_name =
                         ComponentName(FileText(main.app_code_path), main.app_code_path)]
               /\ pc' = "disc_launch"
               /\ UNCHANGED <<live, exit_code>>
          ELSE /\ Exit(1, live)
               /\ UNCHANGED main
    /\ UNCHANGED <<argv, fe, dep, page, launched, opened, closeCalls, steps, editor>>

\* line 416, condition false
MainSkipAuto ==
    /\ pc = "main_auto"
    /\ ~WantsDiscovery
    /\ pc' = "main_url"
    /\ UNCHANGED <<argv, main, fe, dep, page, live, launched, opened, closeCalls,
                   steps, editor, exit_code>>

\* lines 445-448
DiscLaunch ==
    /\ pc = "disc_launch"
    /\ \E o \in {"ok", "launch_raises", "page_raises"} :
          CASE o = "ok" ->
                 /\ launched' = launched \cup {"discover"}
                 /\ opened' = opened \cup {"discover"}
                 /\ live' = live \cup {"discover"}
                 /\ pc' = "fe_goto"
                 /\ UNCHANGED exit_code
            [] o = "launch_raises" ->
                 /\ Exit(1, live)
                 /\ UNCHANGED <<launched, opened>>
            [] OTHER ->
                 /\ launched' = launched \cup {"discover"}
                 /\ Exit(1, live \cup {"discover"})
                 /\ UNCHANGED opened
    /\ UNCHANGED <<argv, main, fe, dep, page, closeCalls, steps, editor>>

\* lines 38-48: goto, the waits and the password query
FeGoto ==
    /\ pc = "fe_goto"
    /\ \E o \in {"ok", "login", "raises"} :
          IF o = "raises"
          THEN /\ fe' = [fe EXCEPT !.editor_id = None, !.via = "error"]
               /\ pc' = "fe_ret"
          ELSE /\ pc' = "fe_content"
               /\ UNCHANGED fe
    /\ UNCHANGED <<argv, main, dep, page, live, launched, opened, closeCalls,
                   steps, editor, exit_code>>

\* lines 50-66: read the markup and scan it for editor links
FeContent ==
    /\ pc = "fe_content"
    /\ \/ /\ fe' = [fe EXCEPT !.editor_id = None, !.via = "error"]
          /\ pc' = "fe_ret"
       \/ \E c \in SeqsUpTo(Segments, MaxSegs) :
            /\ fe' = [fe EXCEPT !.content = c,
                         !.editor_id = StrategyA(c, main.component_name,
                                                 main.component_type)]
            /\ pc' = "fe_scanned"
    /\ UNCHANGED <<argv, main, dep, page, live, launched, opened, closeCalls,
                   steps, editor, exit_code>>

\* lines 64-68: return the link's identifier, or go on to the elements;
\* the markup is not read again
FeScanned ==
    /\ pc = "fe_scanned"
    /\ IF fe.editor_id # None
       THEN /\ fe' = [fe EXCEPT !.via = "a"]
            /\ pc' = "fe_ret"
       ELSE /\ fe' = [fe EXCEPT !.content = <<>>]
            /\ pc' = "fe_elems"
    /\ UNCHANGED <<argv, main, dep, page, live, launched, opened, closeCalls,
                   steps, editor, exit_code>>

\* lines 68-85: the element scan
FeElems ==
    /\ pc = "fe_elems"
    /\ \/ /\ fe' = [fe EXCEPT !.content = <<>>, !.editor_id = None, !.via = "error"]
          /\ pc' = "fe_ret"
       \/ \E es \in SeqsUpTo(ListElems, MaxListElems) :
          \E fault \in 0..Len(es) :
            LET id == StrategyB(es, main.component_name, main.component_type, fault) IN
            /\ fe' = [fe EXCEPT !.content = <<>>, !.elements = es, !.editor_id = id,
                         !.via = IF id # None THEN "b"
                                 ELSE IF fault # 0 THEN "error" ELSE "none"]
            /\ pc' = "fe_ret"
    /\ UNCHANGED <<argv, main, dep, page, live, launched, opened, closeCalls,
                   steps, editor, exit_code>>

\* lines 451-454 and 468-471: an identifier came back
DiscFound ==
    /\ pc = "fe_ret"
    /\ fe.editor_id # None
    /\ closeCalls' = closeCalls \cup {"discover"}
    /\ fe' = FeInit
    /\ \E close_ok \in BOOLEAN, refocus_ok \in BOOLEAN :
          IF close_ok /\ refocus_ok
          THEN /\ main' = [main EXCEPT
                     !.app_url = <<main.hub_ip, main.component_type, fe.editor_id>>]
               /\ live' = ScopeExit(BrowserClose(live, "discover", close_ok))
               /\ pc' = "main_url"
               /\ UNCHANGED exit_code
          ELSE /\ Exit(1, BrowserClose(live, "discover", close_ok))
               /\ UNCHANGED main
    /\ UNCHANGED <<argv, dep, page, launched, opened, steps, editor>>

\* lines 455-471: not found; every way out of this branch is exit status 1
DiscNotFound ==
    /\ pc = "fe_ret"
    /\ fe.editor_id = None
    /\ closeCalls' = closeCalls \cup {"discover"}
    /\ fe' = FeInit
    /\ \E close_ok \in BOOLEAN : Exit(1, BrowserClose(live, "discover", close_ok))
    /\ UNCHANGED <<argv, main, dep, page, launched, opened, steps, editor>>

\* lines 473-475
MainNoUrl ==
    /\ pc = "main_url"
    /\ main.app_url = NoUrl
    /\ Exit(1, live)
    /\ UNCHANGED <<argv, main, fe, dep, page, launched, opened, closeCalls, steps, editor>>

\* line 477: the call; __main__ reads none of its other locals afterwards
MainCallDeploy ==
    /\ pc = "main_url"
    /\ main.app_url # NoUrl
    /\ dep' = [dep EXCEPT !.app_url = main.app_url,
                          !.app_code_path = main.app_code_path,
                          !.headless = main.headless]
    /\ main' = MainInit
    /\ pc' = "d_exists"
    /\ UNCHANGED <<argv, fe, page, live, launched, opened, closeCalls, steps,
                   editor, exit_code>>

(***************************************************************************)
(* deploy_app.                                                             *)
(***************************************************************************)
\* lines 363-367, and every `return False` inside the try block
Failed(d) == [d EXCEPT !.ret = "False"]

\* an exception that leaves deploy_app reaches no handler in __main__
Propagate(d) == [d EXCEPT !.result = "raised"]

\* lines 96-100
DeployMissing ==
    /\ pc = "d_exists"
    /\ ~FileExists(dep.app_code_path)
    /\ dep' = [dep EXCEPT !.ret = "False", !.result = "False"]
    /\ pc' = "main_exit"
    /\ UNCHANGED <<argv, main, fe, page, live, launched, opened, closeCalls, steps,
                   editor, exit_code>>

\* lines 102-107: outside every try block
DeployRead ==
    /\ pc = "d_exists"
    /\ FileExists(dep.app_code_path)
    /\ \E read_ok \in BOOLEAN :
          IF read_ok
          THEN /\ dep' = [dep EXCEPT !.app_code = FileText(dep.app_code_path)]
               /\ pc' = "d_launch"
               /\ UNCHANGED <<live, exit_code>>
          ELSE /\ dep' = Propagate(dep)
               /\ Exit(1, live)
    /\ UNCHANGED <<argv, main, fe, page, launched, opened, closeCalls, steps, editor>>

\* lines 109-113: outside the try block as well; the headless flag is not
\* read again
DeployLaunch ==
    /\ pc = "d_launch"
    /\ \E o \in {"ok", "launch_raises", "page_raises"} :
          CASE o = "ok" ->
                 /\ launched' = launched \cup {"deploy"}
                 /\ opened' = opened \cup {"deploy"}
                 /\ live' = live \cup {"deploy"}
                 /\ dep' = [dep EXCEPT !.headless = FALSE]
                 /\ pc' = "d_goto"
                 /\ UNCHANGED exit_code
            [] o = "launch_raises" ->
                 /\ dep' = Propagate(dep)
                 /\ Exit(1, live)
                 /\ UNCHANGED <<launched, opened>>
            [] OTHER ->
                 /\ launched' = launched \cup {"deploy"}
                 /\ dep' = Propagate(dep)
                 /\ Exit(1, live \cup {"deploy"})
                 /\ UNCHANGED opened
    /\ UNCHANGED <<argv, main, fe, page, closeCalls, steps, editor>>

\* lines 115-127: goto, the wait, the login query and the login wait;
\* the URL is not read again
DeployNavigate ==
    /\ pc = "d_goto"
    /\ \E o \in {"ok", "login", "goto_raises", "login_raises"} :
          /\ steps' = IF o \in {"login", "login_raises"}
                      THEN steps \o <<"Navigate", "ManualLogin">>
                      ELSE Append(steps, "Navigate")
          /\ IF o \in {"ok", "login"}
             THEN /\ dep' = [dep EXCEPT !.navs = @ + 1, !.app_url = NoUrl]
                  /\ pc' = "d_waitcm"
             ELSE /\ dep' = Failed([dep EXCEPT !.navs = @ + 1, !.app_url = NoUrl])
                  /\ pc' = "d_finally"
    /\ UNCHANGED <<argv, main, fe, page, live, launched, opened, closeCalls,
                   editor, exit_code>>

\* lines 133-139
DeployLocateEditor ==
    /\ pc = "d_waitcm"
    /\ steps' = Append(steps, "LocateEditor")
    /\ \E o \in {"found", "timeout", "raises"} :
          CASE o = "found"   -> pc' = "d_eval" /\ UNCHANGED dep
            [] o = "timeout" -> pc' = "d_alt" /\ UNCHANGED dep
            [] OTHER         -> pc' = "d_finally" /\ dep' = Failed(dep)
    /\ UNCHANGED <<argv, main, fe, page, live, launched, opened, closeCalls,
                   editor, exit_code>>

\* what the injected script finds in the page
NoObservation == [cmElement |-> FALSE, instance |-> None, textarea |-> FALSE]

\* without a .CodeMirror element there is nothing to resolve an instance from
Observations ==
    {o \in [cmElement : BOOLEAN, instance : {None, "CodeMirror", "cm", "editors"},
            textarea : BOOLEAN] : ~o.cmElement => o.instance = None}

\* lines 172-174 and 187: whether the script changes the editor's content
JsWrites(obs) == obs.cmElement /\ (obs.instance # None \/ obs.textarea)

JsInjectAlwaysSucceeds(obs) ==
    [success |-> TRUE,
     method |-> IF obs.cmElement /\ obs.instance # None THEN "codemirror" ELSE "textarea"]

JsInjectRawFirst(obs) ==
    IF ~obs.cmElement THEN [success |-> FALSE, method |-> None]
    ELSE IF obs.textarea THEN [success |-> TRUE, method |-> "textarea"]
    ELSE IF obs.instance # None THEN [success |-> TRUE, method |-> "codemirror"]
    ELSE [success |-> FALSE, method |-> None]

\* lines 146-206: what the script run in the page returns
JsInject(obs) ==
    IF ~obs.cmElement THEN [success |-> FALSE, method |-> None]
    ELSE IF obs.instance = None
         THEN (IF obs.textarea THEN [success |-> TRUE, method |-> "textarea"]
               ELSE [success |-> FALSE, method |-> None])
    ELSE [success |-> TRUE, method |-> "codemirror"]

\* lines 141-212; the script may throw before or after cm.setValue
DeployEvaluate ==
    /\ pc = "d_eval"
    /\ steps' = Append(steps, "Inject")
    /\ \/ /\ dep' = Failed(dep)
          /\ pc' = "d_finally"
          /\ UNCHANGED editor
       \/ \E obs \in Observations :
            /\ obs.cmElement /\ obs.instance # None
            /\ dep' = Failed([dep EXCEPT !.observed = obs, !.evaluated = TRUE])
            /\ editor' = "new"
            /\ pc' = "d_finally"
       \/ \E obs \in Observations :
            /\ dep' = [dep EXCEPT !.observed = obs, !.evaluated = TRUE,
                          !.writes = IF JsInject(obs).success
                                     THEN Append(@, JsInject(obs).method) ELSE @]
            /\ editor' = IF JsWrites(obs) THEN "new" ELSE editor
            /\ pc' = IF JsInject(obs).success THEN "d_save" ELSE "d_fallback"
    /\ UNCHANGED <<argv, main, fe, page, live, launched, opened, closeCalls, exit_code>>

\* lines 213-221: textarea.fill is inside the try of line 133, so its
\* timeout reaches the handler of line 223; "raises" is the query raising
DeployFallback ==
    /\ pc = "d_fallback"
    /\ \E o \in {"filled", "fill_timeout", "fill_raises", "raises", "absent"} :
          CASE o = "filled" ->
                 /\ dep' = [dep EXCEPT !.writes = Append(@, "fill"), !.fills = @ + 1,
                                       !.raw_input = "present"]
                 /\ editor' = "new"
                 /\ pc' = "d_save"
            [] o = "fill_timeout" ->
                 /\ dep' = [dep EXCEPT !.fills = @ + 1, !.raw_input = "present"]
                 /\ pc' = "d_alt"
                 /\ UNCHANGED editor
            [] o = "fill_raises" ->
                 /\ dep' = Failed([dep EXCEPT !.fills = @ + 1, !.raw_input = "present"])
                 /\ pc' = "d_finally"
                 /\ UNCHANGED editor
            [] o = "raises" ->
                 /\ dep' = Failed(dep)
                 /\ pc' = "d_finally"
                 /\ UNCHANGED editor
            [] OTHER ->
                 /\ dep' = Failed([dep EXCEPT !.raw_input = "absent"])
                 /\ pc' = "d_finally"
                 /\ UNCHANGED editor
    /\ UNCHANGED <<argv, main, fe, page, live, launched, opened, closeCalls,
                   steps, exit_code>>

\* lines 223-233: the handler of a timeout raised in lines 135-221, by the
\* widget wait or by the fallback's fill; an exception raised here reaches
\* the handler of line 363
DeployAlt ==
    /\ pc = "d_alt"
    /\ steps' = IF InList("Inject", steps) THEN steps ELSE Append(steps, "Inject")
    /\ \E o \in {"filled", "fill_raises", "raises", "absent"} :
          CASE o = "filled" ->
                 /\ dep' = [dep EXCEPT !.writes = Append(@, "fill"), !.fills = @ + 1,
                                       !.raw_input = "present"]
                 /\ editor' = "new"
                 /\ pc' = "d_save"
            [] o = "fill_raises" ->
                 /\ dep' = Failed([dep EXCEPT !.fills = @ + 1, !.raw_input = "present"])
                 /\ pc' = "d_finally"
                 /\ UNCHANGED editor
            [] o = "raises" ->
                 /\ dep' = Failed(dep)
                 /\ pc' = "d_finally"
                 /\ UNCHANGED editor
            [] OTHER ->
                 /\ dep' = Failed([dep EXCEPT !.raw_input = "absent"])
                 /\ pc' = "d_finally"
                 /\ UNCHANGED editor
    /\ UNCHANGED <<argv, main, fe, page, live, launched, opened, closeCalls, exit_code>>

(***************************************************************************)
(* The save control.                                                       *)
(***************************************************************************)
\* save_selectors, lines 243-253, by position
SaveSelectors == 1..9

\* candidate elements of the editor page: the selectors that match each,
\* its inner text and its onclick attribute
SaveCandidates ==
    {[sels |-> {1}, text |-> <<"Save">>, onclick |-> <<>>],
     [sels |-> {2}, text |-> <<>>, onclick |-> <<>>],
     [sels |-> {6}, text |-> <<"Submit">>, onclick |-> <<>>],
     [sels |-> {8}, text |-> <<"Go">>, onclick |-> <<"save", "Code()">>]}

\* line 260
IsSaveControl(e) ==
    \/ Contains(Lower(e.text), <<"save">>)
    \/ (e.onclick # <<>> /\ Contains(Lower(e.onclick), <<"save">>))

\* lines 255-267: a selector whose query raises is skipped
FindSaveButton(cands, failing) ==
    IF \E sel \in SaveSelectors \ failing :
          \E e \in cands : sel \in e.sels /\ IsSaveControl(e)
    THEN "found" ELSE None

\* the script's result and the raw-input lookups are not read again
Injected(d) ==
    [d EXCEPT !.evaluated = FALSE, !.observed = NoObservation, !.raw_input = None]

\* lines 235-267 and 359-361
DeploySaveSearch ==
    /\ pc = "d_save"
    /\ steps' = Append(steps, "LocateSaveControl")
    /\ \/ /\ dep' = Failed(Injected(dep))
          /\ pc' = "d_finally"
       \/ \E cands \in SUBSET SaveCandidates :
          \E failing \in {f \in SUBSET SaveSelectors : Cardinality(f) <= MaxQueryFaults} :
            LET b == FindSaveButton(cands, failing) IN
            IF b # None
            THEN /\ dep' = [Injected(dep) EXCEPT !.save_button = b]
                 /\ pc' = "d_enable"
            ELSE /\ dep' = Failed(Injected(dep))
                 /\ pc' = "d_finally"
    /\ UNCHANGED <<argv, main, fe, page, live, launched, opened, closeCalls,
                   editor, exit_code>>

DeployWaitEnabledGivesUp ==
    /\ pc = "d_enable"
    /\ \E enabled \in BOOLEAN :
          /\ pc' = IF enabled THEN "d_click" ELSE "d_finally"
          /\ dep' = IF enabled THEN [dep EXCEPT !.enabled = "yes"]
                     ELSE Failed([dep EXCEPT !.enabled = "no"])
    /\ UNCHANGED <<argv, main, fe, page, live, launched, opened, closeCalls,
                   steps, editor, exit_code>>

\* lines 269-277: the wait for the control to become enabled
DeployWaitEnabled ==
    /\ pc = "d_enable"
    /\ \E enabled \in BOOLEAN :
          /\ dep' = [dep EXCEPT !.enabled = IF enabled THEN "yes" ELSE "no"]
          /\ pc' = IF enabled THEN "d_click" ELSE "d_forced"
    /\ UNCHANGED <<argv, main, fe, page, live, launched, opened, closeCalls,
                   steps, editor, exit_code>>

\* lines 278-285: the script-level click; `raise e` when it fails too
DeployForcedClick ==
    /\ pc = "d_forced"
    /\ steps' = Append(steps, "Click")
    /\ \E ok \in BOOLEAN :
          IF ok
          THEN /\ dep' = [dep EXCEPT !.clicks = Append(@, "forced"), !.clicked = TRUE]
               /\ pc' = "d_settle"
          ELSE /\ dep' = Failed([dep EXCEPT !.clicks = Append(@, "forced")])
               /\ pc' = "d_finally"
    /\ UNCHANGED <<argv, main, fe, page, live, launched, opened, closeCalls,
                   editor, exit_code>>

\* lines 286-290
DeployClick ==
    /\ pc = "d_click"
    /\ \E o \in {"ok", "scroll_raises", "click_raises"} :
          CASE o = "ok" ->
                 /\ steps' = Append(steps, "Click")
                 /\ dep' = [dep EXCEPT !.clicks = Append(@, "normal"), !.clicked = TRUE]
                 /\ pc' = "d_settle"
            [] o = "scroll_raises" ->
                 /\ dep' = Failed(dep)
                 /\ pc' = "d_finally"
                 /\ UNCHANGED steps
            [] OTHER ->
                 /\ steps' = Append(steps, "Click")
                 /\ dep' = Failed([dep EXCEPT !.clicks = Append(@, "normal")])
                 /\ pc' = "d_finally"
    /\ UNCHANGED <<argv, main, fe, page, live, launched, opened, closeCalls,
                   editor, exit_code>>

\* lines 292-298: the two waits after the click
DeploySettle ==
    /\ pc = "d_settle"
    /\ \E ok \in BOOLEAN :
          IF ok THEN pc' = "d_scrape" /\ UNCHANGED dep
          ELSE pc' = "d_finally" /\ dep' = Failed(dep)
    /\ UNCHANGED <<argv, main, fe, page, live, launched, opened, closeCalls,
                   steps, editor, exit_code>>

(***************************************************************************)
(* The error scrape.                                                       *)
(***************************************************************************)
\* warning_selectors, lines 301-308, by position: .alert-warning,
\* .alert-danger, .warning, [class*='warning'], [class*='alert'],
\* [class*='error']
WarningSelectors == 1..6

ErrClasses == {"alert-warning", "alert-danger", "error-msg"}

SelectorMatches(sel, cls) ==
    CASE cls = "alert-warning" -> sel \in {1, 4, 5}
      [] cls = "alert-danger"  -> sel \in {2, 5}
      [] cls = "error-msg"     -> sel \in {6}
      [] OTHER                 -> FALSE

ElemTexts == {<<"Error", "sp", "line", "sp", "x">>,
              <<"Error", "sp", "nl", "line", "sp", "x">>,
              <<"sp", "x">>}

ErrElems == [cls : ErrClasses, text : ElemTexts]

\* lines 318-323
ElementPatterns ==
    {<<"expecting">>, <<"found">>, <<"@", "sp", "line">>, <<"line", "sp">>,
     <<"column">>, <<"syntax", "sp", "error">>, <<"compilation", "sp", "error">>,
     <<"parse", "sp", "error">>, <<"unexpected">>, <<"token">>, <<"cannot">>,
     <<"failed">>, <<"error">>, <<"exception">>, <<"invalid">>}

\* lines 338-342
LineKeywords ==
    {"expecting", "found", "unexpected", "token", "syntax", "error",
     "exception", "cannot", "invalid", "failed", "parse"}

CleanTextStripOnly(t) == Strip(t)

\* ' '.join(text.split()), lines 324 and 343
CleanText(t) == JoinSp(SplitWs(t))

\* lines 315-326, one element
AddElement(errs, e) ==
    IF /\ e.text # <<>>
       /\ Strip(e.text) # <<>>
       /\ \E p \in ElementPatterns : Contains(Lower(e.text), p)
       /\ ~InList(CleanText(e.text), errs)
    THEN Append(errs, CleanText(e.text))
    ELSE errs

\* lines 313-326, the elements one selector returns, in document order
RECURSIVE ScanElements(_, _, _)
ScanElements(errs, elems, sel) ==
    IF elems = <<>> THEN errs
    ELSE ScanElements(
            IF SelectorMatches(sel, Head(elems).cls) THEN AddElement(errs, Head(elems))
            ELSE errs,
            Tail(elems), sel)

\* lines 311-328: for a selector in `failing` the query raises (read = 0)
\* or reading the element after the first `read` ones raises; either way
\* the rest of that selector is skipped
RECURSIVE ScanSelectors(_, _, _, _, _)
ScanSelectors(errs, sel, elems, failing, read) ==
    IF sel \notin WarningSelectors THEN errs
    ELSE ScanSelectors(
            IF sel \in failing THEN ScanElements(errs, SubSeq(elems, 1, read), sel)
            ELSE ScanElements(errs, elems, sel),
            sel + 1, elems, failing, read)

LineIsErrorKeywordOnly(line) ==
    \E kw \in LineKeywords : Contains(Strip(Lower(line)), <<kw>>)

\* lines 336-342
LineIsError(line) ==
    LET line_lower == Strip(Lower(line)) IN
    /\ \/ Contains(line_lower, <<"@", "sp", "line">>)
       \/ Contains(line_lower, <<"line", "sp">>)
    /\ \E kw \in LineKeywords : Contains(line_lower, <<kw>>)

\* lines 335-345
RECURSIVE ScanLines(_, _)
ScanLines(errs, lines) ==
    IF lines = <<>> THEN errs
    ELSE LET line == Head(lines)
             clean_line == CleanText(line)
         IN ScanLines(
               IF LineIsError(line) /\ clean_line # <<>> /\ ~InList(clean_line, errs)
               THEN Append(errs, clean_line) ELSE errs,
               Tail(lines))

\* lines 331-347: nothing is scanned when the text is empty or the read raises
ScanText(errs, all_text, raises) ==
    IF raises \/ all_text = <<>> THEN errs ELSE ScanLines(errs, SplitLines(all_text))

Range(f) == {f[i] : i \in DOMAIN f}

\* list(set(errors_found)), line 349: the members in some order
SetToLists(S) ==
    {f \in [1..Cardinality(S) -> S] : \A i, j \in DOMAIN f : f[i] = f[j] => i = j}

\* lines 351-358
Verdict(unique_errors) == IF unique_errors # <<>> THEN "False" ELSE "True"

\* text on the page besides the editor's own
ExtraLines ==
    {<<>>,
     <<"Error", "sp", "line", "sp", "x">>,
     <<"sp", "Error", "sp", "sp", "line", "sp", "x">>,
     <<"line", "sp", "x">>,
     <<"Error">>,
     <<"syntax", "sp", "@", "sp", "line">>}

\* document.body.innerText: the editor's lines, when rendered, then the rest
BodyText(shown, code, extra) ==
    IF ~shown THEN extra
    ELSE IF extra = <<>> THEN code
    ELSE code \o <<"nl">> \o extra

\* lines 300-328
DeployScrapeElements ==
    /\ pc = "d_scrape"
    /\ steps' = Append(steps, "ScrapeErrors")
    /\ \E elems \in SeqsUpTo(ErrElems, MaxErrElems) :
       \E failing \in {f \in SUBSET WarningSelectors : Cardinality(f) <= MaxQueryFaults} :
       \E read \in 0..Len(elems) :
          /\ read < Len(elems) \/ failing = {}
          /\ page' = [page EXCEPT !.elems = elems]
          /\ dep' = [dep EXCEPT !.errors_found =
                                    ScanSelectors(<<>>, 1, elems, failing, read)]
    /\ pc' = "d_text"
    /\ UNCHANGED <<argv, main, fe, live, launched, opened, closeCalls, editor, exit_code>>

\* lines 330-358
DeployScrapeText ==
    /\ pc = "d_text"
    /\ \E shown \in BOOLEAN, extra \in ExtraLines, raises \in BOOLEAN :
          LET all_text == BodyText(shown, dep.app_code, extra)
              found == ScanText(dep.errors_found, all_text, raises)
          IN \E unique \in SetToLists(Range(found)) :
                /\ page' = [page EXCEPT !.text = all_text]
                /\ dep' = [dep EXCEPT !.errors_found = found,
                                      !.unique_errors = unique,
                                      !.scraped = TRUE,
                                      !.ret = Verdict(unique)]
    /\ pc' = "d_finally"
    /\ UNCHANGED <<argv, main, fe, live, launched, opened, closeCalls, steps,
                   editor, exit_code>>

\* lines 368-372, then the return; an exception raised here replaces it.
\* The page goes with the browser.
DeployFinally ==
    /\ pc = "d_finally"
    /\ closeCalls' = closeCalls \cup {"deploy"}
    /\ page' = PageInit
    /\ \E close_ok \in BOOLEAN, refocus_ok \in BOOLEAN :
          IF close_ok /\ refocus_ok
          THEN /\ dep' = [dep EXCEPT !.result = dep.ret]
               /\ live' = ScopeExit(BrowserClose(live, "deploy", close_ok))
               /\ pc' = "main_exit"
               /\ UNCHANGED exit_code
          ELSE /\ dep' = Propagate(dep)
               /\ Exit(1, BrowserClose(live, "deploy", close_ok))
    /\ UNCHANGED <<argv, main, fe, launched, opened, steps, editor>>

ExitStatusZero(success) == 0

\* line 478: 0 if success else 1
ExitStatus(success) == IF success = "True" THEN 0 ELSE 1

\* lines 477-478
MainExit ==
    /\ pc = "main_exit"
    /\ main' = [main EXCEPT !.success = dep.result]
    /\ Exit(ExitStatus(dep.result), live)
    /\ UNCHANGED <<argv, fe, dep, page, launched, opened, closeCalls, steps, editor>>

Next ==
    \/ MainUsage \/ MainNoPath \/ MainParse
    \/ MainAutoMissing \/ MainAutoRead \/ MainSkipAuto
    \/ DiscLaunch \/ FeGoto \/ FeContent \/ FeScanned \/ FeElems \/ DiscFound \/ DiscNotFound
    \/ MainNoUrl \/ MainCallDeploy
    \/ DeployMissing \/ DeployRead \/ DeployLaunch \/ DeployNavigate
    \/ DeployLocateEditor \/ DeployEvaluate \/ DeployFallback \/ DeployAlt
    \/ DeploySaveSearch \/ DeployWaitEnabled \/ DeployForcedClick \/ DeployClick
    \/ DeploySettle \/ DeployScrapeElements \/ DeployScrapeText \/ DeployFinally
    \/ MainExit

Spec == Init /\ [][Next]_vars

(***************************************************************************)
(* Properties.                                                             *)
(***************************************************************************)
Exited == pc = "exited"

Searched == InList("LocateSaveControl", steps)

\* C1: the exit status is 0 or 1, and it is 0 only after a run in which the
\* save control was clicked and the scrape collected no error string.
C1_ExitCode ==
    /\ ~Exited => exit_code = None
    /\ Exited => exit_code \in {0, 1}
    /\ (Exited /\ exit_code = 0) =>
          /\ dep.clicked
          /\ dep.scraped
          /\ dep.errors_found = <<>>
          /\ dep.unique_errors = <<>>

C1_Witness == Exited /\ exit_code = 0 /\ dep.clicks = <<"forced">>

C2_Missing(p) == p # None /\ p \notin {"app.groovy", "drv.groovy"}

\* C2: with a source path that does not exist no browser is ever launched
\* and no page step happens, deploy_app (if called) returns False, and the
\* process ends with status 1.
C2_MissingFile ==
    (C2_Missing(main.app_code_path) \/ C2_Missing(dep.app_code_path)) =>
        /\ launched = {}
        /\ opened = {}
        /\ steps = <<>>
        /\ editor = "old"
        /\ dep.result \in {None, "False"}
        /\ Exited => exit_code = 1

C2_Witness ==
    /\ Exited
    /\ C2_Missing(dep.app_code_path)
    /\ dep.result = "False"
    /\ exit_code = 1

\* C3: when the process has exited no browser session is still running, and
\* browser.close() was called on every session whose page was opened.
C3_SessionsClosed ==
    Exited => /\ live = {}
              /\ opened \subseteq closeCalls

C3_Witness ==
    /\ Exited
    /\ launched = {"discover", "deploy"}
    /\ dep.ret = "False"
    /\ dep.clicks = <<"normal">>
    /\ ~dep.clicked

\* C4: deploy_app never lets an exception reach its caller.
C4_NeverPropagates == dep.result # "raised"

C5_Rank(st) ==
    CASE st = "Navigate"          -> 1
      [] st = "ManualLogin"       -> 2
      [] st = "LocateEditor"      -> 3
      [] st = "Inject"            -> 4
      [] st = "LocateSaveControl" -> 5
      [] st = "Click"             -> 6
      [] st = "ScrapeErrors"      -> 7
      [] OTHER                    -> 0

C5_Requires(st, before) == InList(st, steps) => InList(before, steps)

\* C5: the steps of a Deploy run happen in the order Navigate, ManualLogin
\* (optional), LocateEditor, Inject, LocateSaveControl, Click, ScrapeErrors,
\* none twice and none without the one before it; the save control is
\* searched for or clicked only with the new content in the editor, the
\* scrape runs only after a performed click, and True is returned only
\* after the scrape.
C5_StepOrder ==
    /\ \A i, j \in DOMAIN steps : i < j => C5_Rank(steps[i]) < C5_Rank(steps[j])
    /\ \A i \in DOMAIN steps : C5_Rank(steps[i]) > 0
    /\ C5_Requires("ManualLogin", "Navigate")
    /\ C5_Requires("LocateEditor", "Navigate")
    /\ C5_Requires("Inject", "LocateEditor")
    /\ C5_Requires("LocateSaveControl", "Inject")
    /\ C5_Requires("Click", "LocateSaveControl")
    /\ C5_Requires("ScrapeErrors", "Click")
    /\ (Searched \/ dep.clicks # <<>>) => (editor = "new" /\ Len(dep.writes) = 1)
    /\ (InList("ScrapeErrors", steps) \/ dep.scraped) => dep.clicked
    /\ dep.ret = "True" => (dep.scraped /\ InList("ScrapeErrors", steps))

C5_Witness ==
    /\ dep.ret = "True"
    /\ steps = <<"Navigate", "ManualLogin", "LocateEditor", "Inject",
                 "LocateSaveControl", "Click", "ScrapeErrors">>

C6_State ==
    /\ (dep.enabled = "no" /\ pc # "d_forced") => dep.clicks = <<"forced">>
    /\ (dep.enabled = "no" /\ pc # "d_forced" /\ ~dep.clicked) =>
          (dep.ret = "False" /\ ~dep.scraped /\ pc \in {"d_finally", "main_exit", "exited"})
    /\ dep.enabled = "yes" => \A i \in DOMAIN dep.clicks : dep.clicks[i] = "normal"

\* C6: once the wait for the save control to become enabled has failed, the
\* next thing done is the script-level click; the run fails without a
\* click only when that click raised, and a forced click that succeeds
\* leaves the run where a normal click leaves it, before the waits that
\* lead to the scrape.
C6_ForcedClick ==
    [][/\ C6_State'
       /\ pc = "d_forced" => dep'.clicks = Append(dep.clicks, "forced")
       /\ (pc \in {"d_forced", "d_click"} /\ dep'.clicked) =>
             (pc' = "d_settle" /\ dep'.ret = None)
       /\ (pc = "d_forced" /\ ~dep'.clicked) => (pc' = "d_finally" /\ dep'.ret = "False")
       /\ pc' = "d_settle" => pc \in {"d_forced", "d_click"}]_vars

C6_Witness ==
    /\ dep.enabled = "no"
    /\ dep.clicks = <<"forced">>
    /\ dep.scraped
    /\ dep.ret = "True"

C7_Case ==
    /\ pc = "d_finally"
    /\ dep.scraped
    /\ dep.writes = <<"codemirror">>
    /\ dep.save_button # None
    /\ dep.clicked
    /\ page.elems = <<>>

\* C7 as stated: with a working widget and a clicked save control, no
\* error-styled element on the page means success, whatever the page text.
C7_TextIgnored == C7_Case => dep.ret = "True"

C7_Flagged(line) ==
    /\ \/ Contains(Strip(Lower(line)), <<"@", "sp", "line">>)
       \/ Contains(Strip(Lower(line)), <<"line", "sp">>)
    /\ \E i \in DOMAIN line :
          LowerTok(line[i]) \in {"expecting", "found", "unexpected", "token",
                                 "syntax", "error", "exception", "cannot",
                                 "invalid", "failed", "parse"}

C7_TextClean ==
    \A i \in DOMAIN SplitLines(page.text) : ~C7_Flagged(SplitLines(page.text)[i])

\* C7 amended: with a working widget and a clicked save control, the scrape
\* gives success when the page has no error-styled element and no line of
\* the page text carries a line marker together with an error keyword.
C7_CleanPageSucceeds == (C7_Case /\ C7_TextClean) => dep.ret = "True"

C7_Witness ==
    /\ C7_Case
    /\ C7_TextClean
    /\ Contains(page.text, <<"Error">>)
    /\ dep.ret = "True"

C8_Normal(t) == JoinSp(SplitWs(t))

\* C8: the reported errors hold no string twice, also not up to whitespace;
\* they are the strings the scrape collected; and after the scrape the run
\* is failed exactly when there is one, successful exactly when there is none.
C8_Deduplicated ==
    /\ \A i, j \in DOMAIN dep.unique_errors :
          C8_Normal(dep.unique_errors[i]) = C8_Normal(dep.unique_errors[j]) => i = j
    /\ \A i, j \in DOMAIN dep.errors_found :
          C8_Normal(dep.errors_found[i]) = C8_Normal(dep.errors_found[j]) => i = j
    /\ dep.scraped =>
          /\ Range(dep.unique_errors) = Range(dep.errors_found)
          /\ dep.ret = "False" <=> dep.unique_errors # <<>>
          /\ dep.ret = "True" <=> dep.unique_errors = <<>>

C8_Witness ==
    /\ pc = "d_finally"
    /\ dep.scraped
    /\ Len(page.elems) = 1
    /\ page.elems[1].cls = "alert-warning"
    /\ page.elems[1].text = <<"Error", "sp", "nl", "line", "sp", "x">>
    /\ Contains(page.text, <<"sp", "Error", "sp", "sp", "line", "sp", "x">>)
    /\ dep.unique_errors = <<<<"Error", "sp", "line", "sp", "x">>>>
    /\ dep.ret = "False"

C9_Resolved == dep.evaluated /\ dep.observed.cmElement /\ dep.observed.instance # None

\* C9: the widget's setValue is used exactly when the script resolved a
\* widget instance; otherwise the content reaches the editor through the raw
\* text input; and when the last lookup found no raw input either the run
\* ends with False, the editor untouched and no search for a save control.
C9_Injection ==
    /\ C9_Resolved =>
          /\ editor = "new"
          /\ dep.writes = <<"codemirror">> \/ (dep.writes = <<>> /\ dep.ret = "False")
    /\ InList("codemirror", dep.writes) => (C9_Resolved \/ Searched)
    /\ (pc = "d_save" /\ ~C9_Resolved) =>
          /\ dep.writes \in {<<"textarea">>, <<"fill">>}
          /\ editor = "new"
          /\ dep.writes = <<"textarea">> => (dep.evaluated /\ dep.observed.textarea)
          /\ dep.writes = <<"fill">> => dep.raw_input = "present"
    /\ dep.raw_input = "absent" =>
          /\ pc \in {"d_finally", "main_exit", "exited"}
          /\ dep.ret = "False"
          /\ dep.result # "True"
          /\ editor = "old"
          /\ dep.writes = <<>>
          /\ ~Searched
          /\ dep.clicks = <<>>

C9_Witness ==
    /\ dep.raw_input = "absent"
    /\ dep.evaluated
    /\ dep.observed.cmElement
    /\ dep.result = "False"

C10_Near(c, i, name) ==
    \E j \in DOMAIN c :
       /\ c[j].k = "word"
       /\ LowerTok(c[j].v) = LowerTok(name)
       /\ \/ j < i /\ Offset(c, i) - Offset(c, j) <= 200
          \/ j > i /\ (Offset(c, j) + SegLen(c[j])) - (Offset(c, i) + SegLen(c[i])) <= 200

C10_Qualifies(c, i, name, ct) ==
    c[i].k = "link" /\ c[i].ct = ct /\ C10_Near(c, i, name)

C10_ElemQualifies(e, name, ct) ==
    /\ \E i \in DOMAIN e.text : LowerTok(e.text[i]) = LowerTok(name)
    /\ e.href.ct = ct
    /\ e.href.id # None

C10_State ==
    /\ pc = "fe_scanned" =>
          LET c == fe.content
              q == {i \in DOMAIN c :
                       C10_Qualifies(c, i, main.component_name, main.component_type)}
          IN IF q = {} THEN fe.editor_id = None
             ELSE \E i \in q : fe.editor_id = c[i].v /\ \A j \in q : i <= j
    /\ (pc = "fe_ret" /\ fe.via = "b") =>
          \E i \in DOMAIN fe.elements :
             /\ C10_ElemQualifies(fe.elements[i], main.component_name, main.component_type)
             /\ fe.editor_id = fe.elements[i].href.id
             /\ \A j \in 1..(i - 1) :
                   ~C10_ElemQualifies(fe.elements[j], main.component_name,
                                      main.component_type)
    /\ (pc = "fe_ret" /\ fe.via = "none") =>
          /\ fe.editor_id = None
          /\ \A i \in DOMAIN fe.elements :
                ~C10_ElemQualifies(fe.elements[i], main.component_name,
                                   main.component_type)
    /\ (pc = "fe_ret" /\ fe.via = "error") => fe.editor_id = None
    /\ pc = "fe_ret" => fe.via \in {"a", "b", "none", "error"}
    /\ fe.editor_id # None => fe.editor_id \in {"1", "2", "3"}

\* C10: find_editor_id returns the identifier of the first editor link of
\* the component kind, in markup order, that has the name within 200
\* characters either side, whatever its letter case; the element scan runs
\* only when no link qualifies, and then the first element whose text has
\* the name and whose href is an editor link with a number gives the
\* identifier; without a match, or when a page operation raises, the result
\* is None, and the function always returns.
C10_Discovery ==
    [][/\ C10_State'
       /\ pc' = "fe_elems" =>
             /\ pc = "fe_scanned"
             /\ \A i \in DOMAIN fe.content :
                   ~C10_Qualifies(fe.content, i, main.component_name, main.component_type)
       /\ pc \in {"fe_goto", "fe_content", "fe_scanned", "fe_elems"} =>
             pc' \in {"fe_content", "fe_scanned", "fe_elems", "fe_ret"}]_vars

C10_Witness ==
    /\ pc = "fe_ret"
    /\ fe.via = "a"
    /\ fe.editor_id = "2"
    /\ Len(fe.content) = 4
    /\ fe.content[1] = [k |-> "link", ct |-> "app", v |-> "1"]
    /\ fe.content[2].k = "fill"

\* C11: after the scrape the reported error strings are the extracted ones
\* in the order of their extraction: those of the error-styled elements in
\* selector and document order first, then those of the page-text lines in
\* page order. Two runs over the same page then report the same sequence.
C11_ExtractionOrder ==
    dep.scraped => dep.unique_errors = dep.errors_found

\* C12: no step of a Deploy run is attempted twice. The editor URL is
\* navigated to at most once, at most one injection path reports a write,
\* the raw input is filled at most once, and the save control gets at most
\* one click attempt, the normal one or the forced one.
C12_NoRetry ==
    /\ dep.navs <= 1
    /\ Len(dep.writes) <= 1
    /\ dep.fills <= 1
    /\ Len(dep.clicks) <= 1

====
